---- MODULE Spec2Model ----
(***************************************************************************)
(* Federated snippet search of nostr-code-snippets: relay-set resolution,  *)
(* NIP-50 capability probing, the capable and the fallback query branch,   *)
(* and the merge / dedupe / sort / limit step of searchCodeSnippets.       *)
(*                                                                         *)
(* The repository holds two versions of helpers/search.ts.  The variable   *)
(* variant selects the one a behaviour runs:                               *)
(*   "substring"  src/helpers/search.ts   (substring match, sorted merge)  *)
(*   "fuzzy"      src/unnamed/part_007    (FlexSearch match, unsorted)     *)
(***************************************************************************)
EXTENDS Integers, Sequences, FiniteSets, TLC

\* ------------------------------------------------------------------ bounds
MaxLimit == 1
MaxHold == 1
MaxTags == 2
MaxConfigRelays == 2
MaxCallers == 3
MaxRequests == 2
MaxStored == 4

\* --------------------------------------------------------------- universe
Relays == {"A", "B", "S"}

DEFAULT_SEARCH_RELAYS == <<"S">>

NoLimit == -1

Limits == {NoLimit} \cup (0..MaxLimit)

RecordIds == {1, 2, 3}

\* created_at of each record; records 1 and 3 share a timestamp
created_at == [i \in RecordIds |-> IF i = 2 THEN 1 ELSE 2]

\* whether the local match engine finds the query in the record
LocalHit == [i \in RecordIds |-> i # 3]

\* relevance score the token index gives a matching record (higher first)
Score == [i \in RecordIds |-> IF i = 2 THEN 2 ELSE 1]

NoInfo == [ok |-> FALSE, nips |-> {}]

Descriptors == {NoInfo, [ok |-> TRUE, nips |-> {1, 2}], [ok |-> TRUE, nips |-> {1, 50}]}

Branches == {"nip50", "fallback"}

\* the excerpt of LANGUAGES used by the searches of this model
LANGUAGES ==
  [javascript |-> [extensions |-> {"js", "mjs", "cjs"},
                   aliases |-> {"js", "node", "nodejs"}],
   typescript |-> [extensions |-> {"ts", "mts", "cts"}, aliases |-> {"ts"}],
   text |-> [extensions |-> {"txt"}, aliases |-> {"plain", "plaintext"}]]

LanguageKeys == {"javascript", "typescript", "text"}

\* the strings a caller passes in a filter; "" stands for undefined
Query == "hook"

Hex == "4f2a"

\* language inputs: a key, an alias in upper case, an extension, and one
\* that is no key, alias or extension
LanguageInputs == {"javascript", "JS", "mjs", "klingon"}

\* author inputs: a hex key, its npub encoding, and a string that is neither
AuthorInputs == {Hex, "npub1valid", "nobody"}

\* the filter objects a direct caller passes: each optional field alone, and
\* all of them together
PlainFilters == [query |-> Query, language |-> "", tags |-> <<>>, author |-> ""]

DirectFilters ==
  {PlainFilters}
  \cup {[PlainFilters EXCEPT !.language = l] : l \in LanguageInputs}
  \cup {[PlainFilters EXCEPT !.author = a] : a \in AuthorInputs}
  \cup {[PlainFilters EXCEPT !.tags = <<"React", "hooks">>]}
  \cup {[query |-> Query, language |-> "JS", tags |-> <<"React">>,
         author |-> "npub1valid"]}

\* the arguments of the search_snippets tool (query, language)
ToolArgs == {[PlainFilters EXCEPT !.language = l] : l \in {"", "JS", "klingon"}}

\* a relay filter that was never sent
NoFilter == [kinds |-> <<>>]

\* texts of records are sequences of characters; the values a tag or a body
\* may hold: the empty string, a text without the query, a text that holds
\* the query in another case
Plain == <<"x">>

Mixed == <<"x", "H", "k">>

Queries == {<<"h", "k">>, <<"H", "K">>}

TagNames == {"title", "name", "description", "t", "l"}

\* a tag is its name followed by its value; a tag may lack the value
Tags ==
  {<<n>> : n \in TagNames} \cup {<<n, v>> : n \in TagNames, v \in {<<>>, Plain, Mixed}}

TagLists == UNION {[1..n -> Tags] : n \in 0..MaxTags}

\* the records the helpers are applied to
Snippets == [content : {Plain, Mixed}, tags : TagLists]

UntitledSnippet == <<"Untitled Snippet">>

NoOut == [op |-> "none"]

\* the ways the lookup of a relay-list record ends: the record arrives, no
\* record arrives within the 5 s wait, the lookup raises
Lookups == {"found", "timeout", "error"}

\* the relay lists a configuration file may hold: any list of at most
\* MaxConfigRelays addresses, repeats included
ConfigRelayLists == UNION {[1..n -> {"A", "B"}] : n \in 0..MaxConfigRelays}

\* the outboxes a user may have published
OutboxLists == {<<>>, <<"A">>, <<"S">>, <<"A", "S">>}

NoRequest == [seen |-> {}, tl |-> <<>>]

\* the callers of getSigner, the null of signerInstance (instances are
\* numbered from 1 as they are made), the instance handed to
\* setSignerInstance, and a caller that has not called
Callers == 1..MaxCallers
NoInstance == 0
GivenInstance == MaxCallers + 1
NotCalling == [at |-> "idle", got |-> NoInstance]

\* the modules that register a shutdown handler, the ways a handler ends
\* (it resolves, it rejects after an await, it throws before any await), the
\* paths a shutdown request comes by (gracefulShutdown: runCli, SIGINT,
\* SIGTERM; the exit hooks), and a request not made yet
HandlerNames == {"signer", "mcp-server"}
HandlerEnds == {"resolves", "rejects", "throws"}
RequestPaths == {"gracefulShutdown", "exitHook"}
Requests == 1..MaxRequests
\* the two publishToNostr of the repository, the answers of a relay to a
\* publish (an OK message with ok true or false, or an error of the
\* connection), and the search relays publishToNostr adds
Publishers == {"create", "publish_snippet"}
Responses == {"ok", "rejected", "error"}
PublishSearchLists == {<<>>, DEFAULT_SEARCH_RELAYS}

\* the default relays of a configuration, the relay URLs given to the
\* config command (one with blanks around it, one that is no ws:// or
\* wss:// URL), and no command run yet
DEFAULT_RELAYS == <<"A", "B", "S">>
RelayUrls == {"A", " A ", "B", "S", "http://A"}
NoCommand == [op |-> "none", url |-> "", before |-> <<>>, exit |-> 0]

NotRequested == [path |-> "none", at |-> "none", ran |-> FALSE]

VARIABLES
  variant,      \* which version of search.ts runs
  limit,        \* filters.limit (NoLimit = undefined)
  cfgRelays,    \* config.relays
  cfgPubkey,    \* config.pubkey ("" = not set)
  signerKey,    \* public key of the available signer ("" = no signer)
  netSearch,    \* the user's published search-relay list (<<>> = none / timeout)
  netOutboxes,  \* the user's published outboxes (<<>> = none / timeout)
  extraRelays,  \* caller-supplied extra relays
  entry,        \* how the search is reached: "direct", "mcp" (search_snippets)
                \* or "cli" (the search command)
  given,        \* the caller's filter object, or the arguments of the tool
  filters,      \* the filter object searchCodeSnippets was called with
  sent,         \* relay filter each branch request was issued with
  searchedRelays,       \* SearchResult.searchedRelays
  nip50SupportedRelays, \* SearchResult.nip50SupportedRelays
  pc,           \* position of searchCodeSnippets
  searchRelays, \* result of getSearchRelays
  readRelays,   \* result of getReadRelays
  relays,       \* merged candidate list
  net,          \* kinds of network calls issued so far
  probed,       \* relays whose capability probe has completed
  info,         \* descriptor each probe produced
  supported,    \* supportedRelays of filterNIP50SupportedRelays (push order)
  nonNip50,     \* nonNip50Relays
  held,         \* records each relay sent for its query ({} until it answers)
  asked,        \* relay list each branch request was issued to
  branch,       \* state of each branch promise
  eose,         \* relays whose request has completed
  seen,         \* ids that passed mapEventsToStore's distinct, per branch
  timeline,     \* last value of mapEventsToTimeline, per branch
  results,      \* resolved value of each branch promise
  events,       \* SearchResult.events
  total,        \* SearchResult.total
  error,        \* message of the error raised to the caller ("" = none)
  snippet,      \* the record a snippet helper is applied to
  query,        \* the query of the substring match
  out,          \* what the helper returned
  lookup,       \* how the lookup of the user's relay-list record ends
  resolved,     \* what getReadRelays / getWriteRelays returned
  listReq,      \* the request pipe of fetchUserSnippets: ids passed, timeline
  listPubkey,   \* fetchUserSnippets' userPubkey: what getPublicKey returned
  signerInstance, \* signer.ts: the module's signerInstance (NoInstance = null)
  signerValue,  \* whether SIGNER or the keyring holds a signer value
  made,         \* how many signer instances createSignerFromValue has made
  getting,      \* each caller's call of getSigner: where it is, what it got
  replaced,     \* whether the instance was set or cleared from outside
  handlers,     \* shutdown.ts: the registered handlers, by name, in order
  isShuttingDown, \* shutdown.ts: isShuttingDown
  isInitialized,  \* shutdown.ts: isInitialized
  handlerEnds,  \* how each handler ends when invoked
  handlerState, \* where each handler is
  invoked,      \* how many times each handler has been invoked
  atStart,      \* the handlers registered when the shutdown started
  requests,     \* the shutdown requests: their path and where they are
  exited,       \* process.exit has been called
  publisher,    \* which publishToNostr runs: "create" or "publish_snippet"
  allRelays,    \* publishToNostr: the relays the record is published to
  response,     \* how each relay answered the publish
  publishOut,   \* what publishToNostr returned or threw
  storedRelays, \* the config command: config.relays as saved in the file
  lastCommand   \* the last relay operation of the config command

vars == <<variant, limit, cfgRelays, cfgPubkey, signerKey, netSearch, netOutboxes,
          extraRelays, pc, searchRelays, readRelays, relays, net, probed,
          info, supported, nonNip50, held, asked, branch, eose, seen,
          timeline, results, events, total, error, entry, given, filters,
          sent, searchedRelays, nip50SupportedRelays, snippet, query, out,
          lookup, resolved, listReq, listPubkey, signerInstance, signerValue,
          made, getting, replaced, handlers, isShuttingDown, isInitialized,
          handlerEnds, handlerState, invoked, atStart, requests, exited,
          publisher, allRelays, response, publishOut, storedRelays,
          lastCommand>>

cfgVars == <<variant, limit, cfgRelays, cfgPubkey, signerKey, netSearch,
             netOutboxes, extraRelays, entry, given>>

\* the state of the record helpers
snippetVars == <<snippet, query, out>>

\* the state of the relay set resolver called on its own
resolverVars == <<lookup, resolved>>

\* the state of the listing that the search does not share
listVars == <<listReq, listPubkey>>

\* the state of signer.ts
signerVars == <<signerInstance, signerValue, made, getting, replaced>>

\* the state of the shutdown manager
shutdownVars == <<handlers, isShuttingDown, isInitialized, handlerEnds,
                  handlerState, invoked, atStart, requests, exited>>

\* the state of a publish
publishVars == <<publisher, allRelays, response, publishOut>>

\* the state of the config command
commandVars == <<storedRelays, lastCommand>>

\* the module-level state of the helpers that the search and the listing
\* do not touch
moduleVars == <<signerVars, shutdownVars, publishVars, commandVars>>

\* what a search leaves alone
otherVars == <<snippetVars, resolverVars, listVars, moduleVars>>

\* the filter object and what the search reports of it
reqVars == <<filters, sent, searchedRelays, nip50SupportedRelays>>

\* ---------------------------------------------------------------- helpers
Range(s) == {s[i] : i \in 1..Len(s)}

RECURSIVE Dedupe(_, _)
Dedupe(s, acc) ==
  IF s = <<>> THEN acc
  ELSE IF Head(s) \in Range(acc) THEN Dedupe(Tail(s), acc)
       ELSE Dedupe(Tail(s), Append(acc, Head(s)))

\* applesauce mergeRelaySets: union of the lists, first-seen order, no repeats
mergeRelaySets(a, b, c) == Dedupe(a \o b \o c, <<>>)

RECURSIVE SeqFilter(_, _)
SeqFilter(s, keep) ==
  IF s = <<>> THEN <<>>
  ELSE IF Head(s) \in keep THEN <<Head(s)>> \o SeqFilter(Tail(s), keep)
       ELSE SeqFilter(Tail(s), keep)

Take(s, n) == IF n >= Len(s) THEN s ELSE SubSeq(s, 1, n)

Min(a, b) == IF a <= b THEN a ELSE b


\* ------------------------------------------------- pure parts of the code
\* String.prototype.toLowerCase on the strings of this model
toLowerCase(str) ==
  CASE str = "JS" -> "js"
    [] str = "React" -> "react"
    [] OTHER -> str

\* getLanguageFromExtension: the key of the language that lists the
\* extension, undefined ("") when there is none
getLanguageFromExtension(extension) ==
  LET normalizedExt == toLowerCase(extension)
      owners == {k \in LanguageKeys : normalizedExt \in LANGUAGES[k].extensions}
  IN IF owners = {} THEN "" ELSE CHOOSE k \in owners : TRUE

\* normalizeLanguage: a key as it is, an alias or an extension as the key
\* that lists it, undefined ("") for anything else
normalizeLanguage(input) ==
  LET normalized == toLowerCase(input)
      byAlias == {k \in LanguageKeys : normalized \in LANGUAGES[k].aliases}
  IN IF normalized \in LanguageKeys THEN normalized
     ELSE IF byAlias # {} THEN CHOOSE k \in byAlias : TRUE
     ELSE getLanguageFromExtension(normalized)

\* applesauce normalizeToPubkey: a hex key as it is, an npub decoded to its
\* hex key, null ("") for a string that is neither
normalizeToPubkey(str) ==
  CASE str = Hex -> Hex
    [] str = "npub1valid" -> Hex
    [] OTHER -> ""

\* author.startsWith("npub1")
startsWithNpub1(str) == str = "npub1valid"

\* the optional constraints a filter object sets
OptionalKeys(fl) ==
  (IF fl.language # "" THEN {"#l"} ELSE {})
  \cup (IF Len(fl.tags) > 0 THEN {"#t"} ELSE {})
  \cup (IF fl.author # "" THEN {"authors"} ELSE {})

\* filters.tags.map((tag) => tag.toLowerCase())
LowerTags(tags) == [i \in 1..Len(tags) |-> toLowerCase(tags[i])]

\* buildSearchFilter: a relay filter is a function from the keys that are
\* set to their values: kind 1337, the search field, and the optional
\* constraints; an npub author is decoded
buildSearchFilter(fl) ==
  LET authorPubkey == IF startsWithNpub1(fl.author)
                      THEN normalizeToPubkey(fl.author) ELSE fl.author
  IN [k \in {"kinds", "search"} \cup OptionalKeys(fl) |->
        CASE k = "kinds" -> <<1337>>
          [] k = "search" -> <<fl.query>>
          [] k = "#l" -> <<fl.language>>
          [] k = "#t" -> LowerTags(fl.tags)
          [] OTHER -> <<authorPubkey>>]

\* mutant: the fallback filter leaves the language constraint out
basicFilterNoLanguage(fl) ==
  [k \in ({"kinds"} \cup OptionalKeys(fl)) \ {"#l"} |->
     CASE k = "kinds" -> <<1337>>
       [] k = "#t" -> LowerTags(fl.tags)
       [] OTHER -> <<normalizeToPubkey(fl.author)>>]

\* the basicFilter of fallbackSearchEvents: kind 1337 and the optional
\* constraints, no search field
basicFilter(fl) ==
  [k \in {"kinds"} \cup OptionalKeys(fl) |->
     CASE k = "kinds" -> <<1337>>
       [] k = "#l" -> <<fl.language>>
       [] k = "#t" -> LowerTags(fl.tags)
       [] OTHER -> <<normalizeToPubkey(fl.author)>>]

\* the filter object the search_snippets tool passes to searchCodeSnippets:
\* the query and the normalized language, no tags, no author
toolFilters(args) ==
  [query |-> args.query,
   language |-> IF args.language # "" THEN normalizeLanguage(args.language) ELSE "",
   tags |-> <<>>, author |-> ""]

\* mutant: an author that cannot be normalized is passed on as it is
authorOrThrowLenient(v, author) ==
  [ok |-> TRUE, author |-> IF normalizeToPubkey(author) = "" THEN author
                           ELSE normalizeToPubkey(author)]

\* `filters.author = normalizeToPubkey(filters.author)` at the head of
\* searchCodeSnippets: a malformed author raises (search.ts: the library
\* call throws; part_007: `if (!key) throw new Error("Invalid author")`)
authorOrThrow(v, author) ==
  IF author = "" THEN [ok |-> TRUE, author |-> ""]
  ELSE IF normalizeToPubkey(author) = "" THEN [ok |-> FALSE, author |-> author]
  ELSE [ok |-> TRUE, author |-> normalizeToPubkey(author)]

\* part_007 only: filters.language = normalizeLanguage(filters.language) ||
\* filters.language
languageOrRaw(v, language) ==
  IF v = "fuzzy" /\ language # "" /\ normalizeLanguage(language) # ""
  THEN normalizeLanguage(language) ELSE language

\* String.prototype.toLowerCase on a text
toLower(text) ==
  [i \in 1..Len(text) |->
     CASE text[i] = "H" -> "h"
       [] text[i] = "K" -> "k"
       [] OTHER -> text[i]]

\* String.prototype.includes
includes(text, part) ==
  \E i \in 0..(Len(text) - Len(part)) : SubSeq(text, i + 1, i + Len(part)) = part

\* the tags of a record with a given name, in order
TagsNamed(event, name) ==
  SeqFilter(event.tags, {tag \in Range(event.tags) : tag[1] = name})

\* event.tags.find((tag) => tag[0] === name)?.[1]: the value of the first
\* tag of that name; undefined when there is no such tag or it has no value
\* (undefined is written <<>>: every caller treats it as the empty string)
getTagValue(event, name) ==
  LET named == TagsNamed(event, name)
  IN IF Len(named) = 0 \/ Len(named[1]) < 2 THEN <<>> ELSE named[1][2]

getSnippetName(event) == getTagValue(event, "name")

getSnippetDescription(event) == getTagValue(event, "description")

\* mutant: the description is preferred to the name
getSnippetTitleDescriptionFirst(event) ==
  IF getSnippetDescription(event) # <<>> THEN getSnippetDescription(event)
  ELSE IF getSnippetName(event) # <<>> THEN getSnippetName(event)
  ELSE UntitledSnippet

\* name || description || "Untitled Snippet"
getSnippetTitle(event) ==
  IF getSnippetName(event) # <<>> THEN getSnippetName(event)
  ELSE IF getSnippetDescription(event) # <<>> THEN getSnippetDescription(event)
  ELSE UntitledSnippet

\* the values of the t tags that have one, lowercased
getSnippetTags(event) ==
  LET kept == SeqFilter(event.tags,
                        {tag \in Range(event.tags) :
                           tag[1] = "t" /\ Len(tag) = 2 /\ tag[2] # <<>>})
  IN [i \in 1..Len(kept) |-> toLower(kept[i][2])]

\* the predicate of the client-side filter of fallbackSearchEvents
\* (search.ts): the lowercased query is looked for in the lowercased
\* content, "title" tag value and t tag values
matchesQuery(event, q) ==
  LET lq == toLower(q)
      content == toLower(event.content)
      title == toLower(getTagValue(event, "title"))
      tags == {IF Len(tag) = 2 THEN toLower(tag[2]) ELSE <<>> :
                 tag \in {tg \in Range(event.tags) : tg[1] = "t"}}
  IN includes(content, lq) \/ includes(title, lq)
     \/ \E tag \in tags : includes(tag, lq)

\* events.filter(...) of fallbackSearchEvents on a list of records
RECURSIVE filterByQuery(_, _)
filterByQuery(evs, q) ==
  IF evs = <<>> THEN <<>>
  ELSE IF matchesQuery(Head(evs), q) THEN <<Head(evs)>> \o filterByQuery(Tail(evs), q)
       ELSE filterByQuery(Tail(evs), q)

\* mutant: any advertised extension counts as search support
supportsAnyNip(relayInfo) == relayInfo.nips # {}

\* relayInfo.supported_nips?.includes(50) ?? false
supportsNIP50(relayInfo) == 50 \in relayInfo.nips

\* mutant: a missing descriptor is taken as capable
IsCapableOrMissing(relayInfo) == ~relayInfo.ok \/ supportsNIP50(relayInfo)

\* the test `relayInfo && supportsNIP50(relayInfo)` of a relay check
IsCapable(relayInfo) == relayInfo.ok /\ supportsNIP50(relayInfo)

\* mutant: no fallback to the hardcoded defaults
getSearchRelaysNoDefault(userPubkey, userSearchRelays) ==
  IF userPubkey # "" THEN userSearchRelays ELSE <<>>

\* getPublicKey: config.pubkey when set, else the signer's key, else
\* undefined ("")
getPublicKey(configPubkey, signer) ==
  IF configPubkey # "" THEN configPubkey ELSE signer

\* getSearchRelays: the user's search relays when a public key is known and
\* the lookup returned a non-empty list (a failed or timed-out lookup is
\* caught and counts as none), the hardcoded defaults otherwise
getSearchRelays(userPubkey, userSearchRelays) ==
  IF userPubkey # "" /\ Len(userSearchRelays) > 0 THEN userSearchRelays
  ELSE DEFAULT_SEARCH_RELAYS

\* getReadRelays: config.relays, merged with the outboxes when config.pubkey
\* is set (a failed mailbox lookup counts as no outboxes)
getReadRelays(configPubkey, configRelays, outboxes) ==
  IF configPubkey = "" THEN configRelays
  ELSE mergeRelaySets(configRelays, outboxes, <<>>)

\* getUserMailboxes: firstValueFrom(mailboxes.pipe(defined(),
\* simpleTimeout(5_000))) resolves with the record, and rejects when none
\* arrives in time or the lookup raises
getUserMailboxes(how, outboxes) ==
  IF how = "found" THEN [ok |-> TRUE, outboxes |-> outboxes]
  ELSE [ok |-> FALSE, outboxes |-> <<>>]

\* mutant: the rejection of the lookup is not caught
awaitOutboxesNoCatch(m) == m

\* `.then((m) => m.outboxes).catch(() => [])`
awaitOutboxes(m) ==
  IF m.ok THEN [ok |-> TRUE, outboxes |-> m.outboxes]
  ELSE [ok |-> TRUE, outboxes |-> <<>>]

\* getReadRelays as a call that may fail: its result, or ok = FALSE when it
\* raises
readRelaysCall(configPubkey, configRelays, how, outboxes) ==
  LET o == IF configPubkey = "" THEN [ok |-> TRUE, outboxes |-> <<>>]
           ELSE awaitOutboxes(getUserMailboxes(how, outboxes))
  IN IF o.ok
     THEN [ok |-> TRUE, relays |-> getReadRelays(configPubkey, configRelays, o.outboxes)]
     ELSE [ok |-> FALSE, relays |-> <<>>]

\* getWriteRelays: config.relays, merged with the outboxes when config.pubkey
\* is set
getWriteRelays(configPubkey, configRelays, outboxes) ==
  IF configPubkey = "" THEN configRelays
  ELSE mergeRelaySets(configRelays, outboxes, <<>>)

writeRelaysCall(configPubkey, configRelays, how, outboxes) ==
  LET o == IF configPubkey = "" THEN [ok |-> TRUE, outboxes |-> <<>>]
           ELSE awaitOutboxes(getUserMailboxes(how, outboxes))
  IN IF o.ok
     THEN [ok |-> TRUE, relays |-> getWriteRelays(configPubkey, configRelays, o.outboxes)]
     ELSE [ok |-> FALSE, relays |-> <<>>]

\* nostr-tools binarySearch with the comparator of
\* insertEventIntoDescendingList; indices are 1-based
RECURSIVE binarySearch(_, _, _, _)
binarySearch(arr, ev, start, end) ==
  IF start > end THEN [idx |-> start, found |-> FALSE]
  ELSE LET mid == (start + end) \div 2
           cmp == IF arr[mid] = ev THEN 0
                  ELSE IF created_at[arr[mid]] = created_at[ev] THEN -1
                  ELSE created_at[arr[mid]] - created_at[ev]
       IN IF cmp = 0 THEN [idx |-> mid, found |-> TRUE]
          ELSE IF cmp < 0 THEN binarySearch(arr, ev, start, mid - 1)
          ELSE binarySearch(arr, ev, mid + 1, end)

\* one step of mapEventsToTimeline's scan
insertEventIntoDescendingList(arr, ev) ==
  LET r == binarySearch(arr, ev, 1, Len(arr))
  IN IF r.found THEN arr
     ELSE SubSeq(arr, 1, r.idx - 1) \o <<ev>> \o SubSeq(arr, r.idx, Len(arr))

\* Array.prototype.sort((a, b) => b.created_at - a.created_at): stable,
\* newest first
RECURSIVE InsertSorted(_, _)
InsertSorted(sorted, ev) ==
  IF sorted = <<>> THEN <<ev>>
  ELSE IF created_at[Head(sorted)] >= created_at[ev]
       THEN <<Head(sorted)>> \o InsertSorted(Tail(sorted), ev)
       ELSE <<ev>> \o sorted

RECURSIVE SortNewestFirst(_, _)
SortNewestFirst(s, acc) ==
  IF s = <<>> THEN acc ELSE SortNewestFirst(Tail(s), InsertSorted(acc, Head(s)))

\* the substring filter of fallbackSearchEvents: keeps the timeline order
SubstringFilter(evs) == SeqFilter(evs, {i \in RecordIds : LocalHit[i]})

\* fuzzySearchEvents: the index hits, best relevance first, index order
\* among equal scores
RECURSIVE InsertRanked(_, _)
InsertRanked(ranked, ev) ==
  IF ranked = <<>> THEN <<ev>>
  ELSE IF Score[Head(ranked)] >= Score[ev]
       THEN <<Head(ranked)>> \o InsertRanked(Tail(ranked), ev)
       ELSE <<ev>> \o ranked

RECURSIVE RankByScore(_, _)
RankByScore(s, acc) ==
  IF s = <<>> THEN acc ELSE RankByScore(Tail(s), InsertRanked(acc, Head(s)))

fuzzySearchEvents(evs) == RankByScore(SubstringFilter(evs), <<>>)

\* client-side matching of the fallback branch
LocalMatch(v, evs) ==
  IF v = "substring" THEN SubstringFilter(evs) ELSE fuzzySearchEvents(evs)

\* searchResults.flat(): the order the promises were pushed
Flat(v, res) ==
  IF v = "substring" THEN res["nip50"] \o res["fallback"]
  ELSE res["fallback"] \o res["nip50"]

\* mutant: the merged list is passed on as it is
uniqueEventsKeepAll(allEvents) == allEvents

\* Array.from(new Map(allEvents.map(e => [e.id, e])).values()) and the
\* seen-set filter: one entry per id, in first-occurrence order
uniqueEvents(allEvents) == Dedupe(allEvents, <<>>)

\* mutant: the sort is left out
CombineNoSort(v, allEvents) == uniqueEvents(allEvents)

\* deduplicate, then (search.ts only) sort newest first
Combine(v, allEvents) ==
  IF v = "substring" THEN SortNewestFirst(uniqueEvents(allEvents), <<>>)
  ELSE uniqueEvents(allEvents)

\* mutant: the slice keeps one element too many
ApplyLimitOffByOne(lim, list) ==
  IF lim # NoLimit /\ lim # 0 THEN Take(list, lim + 1) ELSE list

\* filters.limit ? list.slice(0, filters.limit) : list
ApplyLimit(lim, list) ==
  IF lim # NoLimit /\ lim # 0 THEN Take(list, lim) ELSE list

finalEvents(v, lim, res) == ApplyLimit(lim, Combine(v, Flat(v, res)))


\* ------------------------------------------------------------------ state
HoldSets == {h \in SUBSET RecordIds : Cardinality(h) <= MaxHold}

\* the relays a branch request goes to
BranchRelays(b) == Range(asked[b])

\* the branch whose request a relay is part of
BranchOf(r) == IF r \in Range(asked["nip50"]) THEN "nip50" ELSE "fallback"

\* the configurations a behaviour starts from: without any public key the
\* configured relays and the extras vary; with config.pubkey set, or with a
\* signer only, what the network holds for the user varies
Configs ==
  {[pubkey |-> "", signer |-> "", relays |-> r, search |-> <<>>,
    outboxes |-> <<>>, extra |-> x] :
     r \in {<<>>, <<"A">>}, x \in {<<>>, <<"B">>}}
  \cup
  {[pubkey |-> "kc", signer |-> g, relays |-> <<>>, search |-> s,
    outboxes |-> o, extra |-> <<>>] :
     g \in {"", "ks"}, s \in {<<>>, <<"B">>}, o \in {<<>>, <<"A">>}}
  \cup
  {[pubkey |-> "", signer |-> "ks", relays |-> <<>>, search |-> s,
    outboxes |-> <<>>, extra |-> <<>>] :
     s \in {<<>>, <<"B">>}}

\* no record helper has been applied
SnippetIdle ==
  /\ snippet = [content |-> Plain, tags |-> <<>>]
  /\ query = <<>>
  /\ out = NoOut

\* the resolver has not been called on its own
ResolverIdle ==
  /\ lookup = "found"
  /\ resolved = NoOut

\* no listing is running
ListIdle == listReq = NoRequest /\ listPubkey = ""

\* signer.ts as loaded: no instance, no call of getSigner
SignerIdle ==
  /\ signerInstance = NoInstance
  /\ signerValue = FALSE
  /\ made = 0
  /\ getting = [c \in Callers |-> NotCalling]
  /\ replaced = FALSE

\* shutdown.ts as loaded: no handler, no request
ShutdownIdle ==
  /\ handlers = <<>>
  /\ isShuttingDown = FALSE
  /\ isInitialized = FALSE
  /\ handlerEnds = [n \in HandlerNames |-> "resolves"]
  /\ handlerState = [n \in HandlerNames |-> "idle"]
  /\ invoked = [n \in HandlerNames |-> 0]
  /\ atStart = <<>>
  /\ requests = [r \in Requests |-> NotRequested]
  /\ exited = FALSE

\* nothing is being published
PublishIdle ==
  /\ publisher = "create"
  /\ allRelays = <<>>
  /\ response = [r \in Relays |-> "none"]
  /\ publishOut = NoOut

\* the config command has not run
CommandIdle == storedRelays = <<>> /\ lastCommand = NoCommand

ModuleIdle == SignerIdle /\ ShutdownIdle /\ PublishIdle /\ CommandIdle

\* the configuration the searches with a non-plain filter run under: a
\* configured public key whose search relay and outbox are both published
FilterConfig ==
  [pubkey |-> "kc", signer |-> "", relays |-> <<>>, search |-> <<"B">>,
   outboxes |-> <<"A">>, extra |-> <<>>]

\* the configuration the search command runs under: a configured relay and
\* one relay given with -r/--relay
CliConfig ==
  [pubkey |-> "", signer |-> "", relays |-> <<"A">>, search |-> <<>>,
   outboxes |-> <<>>, extra |-> <<"B">>]

\* the calls a behaviour starts from: a plain filter under every
\* configuration and limit; every other filter object, and every call of
\* the search_snippets tool (whose limit is at least 1), under FilterConfig;
\* the search command with a -r relay under CliConfig
Calls ==
  {[config |-> c, limit |-> n, entry |-> "direct", given |-> PlainFilters] :
     c \in Configs, n \in Limits}
  \cup
  {[config |-> FilterConfig, limit |-> NoLimit, entry |-> "direct", given |-> f] :
     f \in DirectFilters \ {PlainFilters}}
  \cup
  {[config |-> FilterConfig, limit |-> MaxLimit, entry |-> "mcp", given |-> a] :
     a \in ToolArgs}
  \cup
  {[config |-> CliConfig, limit |-> MaxLimit, entry |-> "cli", given |-> PlainFilters]}

Init ==
  /\ variant \in {"substring", "fuzzy"}
  /\ \E call \in Calls :
       /\ limit = call.limit
       /\ entry = call.entry
       /\ given = call.given
       /\ cfgPubkey = call.config.pubkey
       /\ signerKey = call.config.signer
       /\ cfgRelays = call.config.relays
       /\ netSearch = call.config.search
       /\ netOutboxes = call.config.outboxes
       /\ extraRelays = call.config.extra
  /\ pc = (IF entry = "mcp" THEN "tool" ELSE IF entry = "cli" THEN "cli" ELSE "called")
  /\ filters = (IF entry = "mcp" THEN PlainFilters ELSE given)
  /\ sent = [b \in Branches |-> NoFilter]
  /\ searchedRelays = <<>>
  /\ nip50SupportedRelays = <<>>
  /\ searchRelays = <<>>
  /\ readRelays = <<>>
  /\ relays = <<>>
  /\ net = {}
  /\ probed = {}
  /\ info = [r \in Relays |-> NoInfo]
  /\ supported = <<>>
  /\ nonNip50 = <<>>
  /\ held = [r \in Relays |-> {}]
  /\ asked = [b \in Branches |-> <<>>]
  /\ branch = [b \in Branches |-> "idle"]
  /\ eose = {}
  /\ seen = [b \in Branches |-> {}]
  /\ timeline = [b \in Branches |-> <<>>]
  /\ results = [b \in Branches |-> <<>>]
  /\ events = <<>>
  /\ total = 0
  /\ error = ""
  /\ SnippetIdle
  /\ ResolverIdle
  /\ ListIdle
  /\ ModuleIdle

\* ---------------------------------------------------------------- actions
\* the handler of the search_snippets tool up to its call of
\* searchCodeSnippets: it builds the filter object from its arguments
search_snippets ==
  /\ pc = "tool"
  /\ filters' = toolFilters(given)
  /\ pc' = "called"
  /\ UNCHANGED <<cfgVars, otherVars, sent, searchedRelays, nip50SupportedRelays,
                 searchRelays, readRelays, relays, net, probed, info,
                 supported, nonNip50, held, asked, branch, eose, seen,
                 timeline, results, events, total, error>>

\* SearchCommand.execute up to its call of searchCodeSnippets: the options
\* are put into one filter object, the -r relays as its field extraRelays,
\* and searchCodeSnippets is called with that object only
execute ==
  /\ pc = "cli"
  /\ filters' = given
  /\ pc' = "called"
  /\ UNCHANGED <<cfgVars, otherVars, sent, searchedRelays, nip50SupportedRelays,
                 searchRelays, readRelays, relays, net, probed, info,
                 supported, nonNip50, held, asked, branch, eose, seen,
                 timeline, results, events, total, error>>

\* "Normalize input" at the head of searchCodeSnippets, before its try
\* block: the author, then (part_007) the language, are written back into
\* the caller's filter object; a malformed author raises
NormalizeInput ==
  /\ pc = "called"
  /\ LET a == authorOrThrow(variant, filters.author) IN
       IF a.ok
       THEN /\ filters' = [filters EXCEPT
                             !.author = a.author,
                             !.language = languageOrRaw(variant, filters.language)]
            /\ pc' = "start"
            /\ error' = error
       ELSE /\ filters' = filters
            /\ pc' = "failed"
            /\ error' = "Invalid author"
  /\ UNCHANGED <<cfgVars, otherVars, sent, searchedRelays, nip50SupportedRelays,
                 searchRelays, readRelays, relays, net, probed, info,
                 supported, nonNip50, held, asked, branch, eose, seen,
                 timeline, results, events, total>>

\* `await getSearchRelays()`: the search-relay list lookup is issued only
\* when a public key is known; its timeout is caught inside
GetSearchRelays ==
  /\ pc = "start"
  /\ searchRelays' = getSearchRelays(getPublicKey(cfgPubkey, signerKey), netSearch)
  /\ net' = IF getPublicKey(cfgPubkey, signerKey) # ""
            THEN net \cup {"lookup"} ELSE net
  /\ pc' = "gotSearch"
  /\ UNCHANGED <<cfgVars, otherVars, reqVars, readRelays, relays, probed, info, supported,
                 nonNip50, held, asked, branch, eose, seen, timeline, results,
                 events, total, error>>

\* `await getReadRelays()`
GetReadRelays ==
  /\ pc = "gotSearch"
  /\ readRelays' = getReadRelays(cfgPubkey, cfgRelays, netOutboxes)
  /\ net' = IF cfgPubkey # "" THEN net \cup {"lookup"} ELSE net
  /\ pc' = "gotRead"
  /\ UNCHANGED <<cfgVars, otherVars, reqVars, searchRelays, relays, probed, info, supported,
                 nonNip50, held, asked, branch, eose, seen, timeline, results,
                 events, total, error>>

\* the second argument searchCodeSnippets receives: the caller's relays from
\* a direct caller and from the tool, undefined from the search command
extraRelaysArgument(how, callerRelays) ==
  IF how = "cli" THEN <<>> ELSE callerRelays

\* mergeRelaySets, the empty check, and the start of every capability probe
Resolve ==
  /\ pc = "gotRead"
  /\ relays' = mergeRelaySets(searchRelays, readRelays,
                              extraRelaysArgument(entry, extraRelays))
  /\ IF Len(relays') = 0
     THEN /\ pc' = "failed"
          /\ error' = "No search relays available"
          /\ net' = net
     ELSE /\ pc' = "probing"
          /\ error' = error
          /\ net' = net \cup {"probe"}
  /\ UNCHANGED <<cfgVars, otherVars, reqVars, searchRelays, readRelays, probed, info, supported,
                 nonNip50, held, asked, branch, eose, seen, timeline, results,
                 events, total>>

\* one relay check of filterNIP50SupportedRelays completes: the descriptor
\* arrived, or information$ gave null (fetch error or timeout)
ProbeDone(r) ==
  /\ pc = "probing"
  /\ r \in Range(relays) \ probed
  /\ \E relayInfo \in Descriptors :
       /\ info' = [info EXCEPT ![r] = relayInfo]
       /\ supported' = IF IsCapable(relayInfo) THEN Append(supported, r)
                       ELSE supported
  /\ probed' = probed \cup {r}
  /\ UNCHANGED <<cfgVars, otherVars, reqVars, pc, searchRelays, readRelays, relays, net, nonNip50,
                 held, asked, branch, eose, seen, timeline, results, events,
                 total, error>>

\* relays.filter((relay) => !nip50SupportedRelays.includes(relay))
nonNip50Relays(all, nip50List) ==
  SeqFilter(all, Range(all) \ Range(nip50List))

\* mutant: the probes are raced, the first to complete lets the search go on
relayChecksRaced == probed # {}

\* `await Promise.all(relayChecks)`: every probe has completed
relayChecks == probed = Range(relays)

\* Promise.all(relayChecks) resolved: partition the candidates and issue
\* the request of every non-empty branch (pool.request on the capable list,
\* fallbackSearchEvents on the rest)
Launch ==
  /\ pc = "probing"
  /\ relayChecks
  /\ nonNip50' = nonNip50Relays(relays, supported)
  /\ asked' = [b \in Branches |-> IF b = "nip50" THEN supported ELSE nonNip50']
  /\ branch' = [b \in Branches |->
                  IF Len(asked'[b]) > 0 THEN "pending" ELSE "skipped"]
  /\ sent' = [b \in Branches |->
                IF Len(asked'[b]) = 0 THEN NoFilter
                ELSE IF b = "nip50" THEN buildSearchFilter(filters)
                ELSE basicFilter(filters)]
  /\ net' = net \cup {"query"}
  /\ pc' = "searching"
  /\ UNCHANGED <<cfgVars, otherVars, filters, searchedRelays, nip50SupportedRelays,
                 searchRelays, readRelays, relays, probed, info,
                 supported, held, eose, seen, timeline, results, events,
                 total, error>>

\* the orders in which a relay may send the records it holds
Orders(S) == {o \in [1..Cardinality(S) -> S] : Range(o) = S}

\* the pipe of a branch request fed with a run of events: mapEventsToStore
\* drops an id the branch has already passed on (distinct by id),
\* mapEventsToTimeline inserts the others
RECURSIVE Feed(_, _)
Feed(st, evs) ==
  IF evs = <<>> THEN st
  ELSE IF Head(evs) \in st.seen THEN Feed(st, Tail(evs))
       ELSE Feed([seen |-> st.seen \cup {Head(evs)},
                  tl |-> insertEventIntoDescendingList(st.tl, Head(evs))],
                 Tail(evs))

\* the value a branch promise resolves with once its request completes:
\* the last timeline (startWith([]) when there was none), locally matched
\* on the fallback branch
BranchResult(v, b, tl) == IF b = "fallback" THEN LocalMatch(v, tl) ELSE tl

\* the request of one relay runs to its end: the relay sends the records it
\* holds for the query (any set of at most MaxHold records), in some order,
\* and the request ends (EOSE, connection error, or
\* the pool giving up on a relay that does not answer); the branch request
\* completes with the last of its relays
RelayAnswers(r) ==
  LET b == BranchOf(r) IN
  /\ pc = "searching"
  /\ r \in Range(relays) \ eose
  /\ branch[b] = "pending"
  /\ \E h \in HoldSets : \E o \in Orders(h) :
       LET st == Feed([seen |-> seen[b], tl |-> timeline[b]], o) IN
       /\ held' = [held EXCEPT ![r] = h]
       /\ seen' = [seen EXCEPT ![b] = st.seen]
       /\ timeline' = [timeline EXCEPT ![b] = st.tl]
       /\ IF BranchRelays(b) \subseteq eose \cup {r}
          THEN /\ branch' = [branch EXCEPT ![b] = "done"]
               /\ results' = [results EXCEPT
                                ![b] = BranchResult(variant, b, st.tl)]
          ELSE UNCHANGED <<branch, results>>
  /\ eose' = eose \cup {r}
  /\ UNCHANGED <<cfgVars, otherVars, reqVars, pc, searchRelays, readRelays, relays, net, probed,
                 info, supported, nonNip50, asked, events, total, error>>

\* simpleTimeout(15_000): no timeline value within the wait and the request
\* still open: the operator throws, startWith([]) sits after it and does not
\* catch, so the branch promise rejects; Promise.all rejects with it and the
\* catch block of searchCodeSnippets rethrows, all in the same turn
QueryTimeout(b) ==
  /\ pc = "searching"
  /\ branch[b] = "pending"
  /\ timeline[b] = <<>>
  /\ branch' = [branch EXCEPT ![b] = "error"]
  /\ pc' = "failed"
  /\ error' = "Timeout"
  /\ UNCHANGED <<cfgVars, otherVars, reqVars, searchRelays, readRelays, relays, net, probed,
                 info, supported, nonNip50, held, asked, eose, seen,
                 timeline, results, events, total>>

\* mutant: the join also waits for a branch that was never launched
AllSettledBoth == \A b \in Branches : branch[b] = "done"

\* Promise.all(searchPromises) resolves when every launched branch has
\* resolved
AllSettled == \A b \in Branches : branch[b] \in {"done", "skipped"}

\* the code after `await Promise.all(searchPromises)`: merge, dedupe,
\* (sort), limit and return
Join ==
  /\ pc = "searching"
  /\ AllSettled
  /\ events' = finalEvents(variant, limit, results)
  /\ total' = Len(events')
  /\ searchedRelays' = searchRelays
  /\ nip50SupportedRelays' = supported
  /\ pc' = "done"
  /\ UNCHANGED <<cfgVars, otherVars, filters, sent, searchRelays, readRelays, relays, net, probed, info,
                 supported, nonNip50, held, asked, branch, eose, seen,
                 timeline, results, error>>

Next ==
  \/ search_snippets
  \/ execute
  \/ NormalizeInput
  \/ GetSearchRelays
  \/ GetReadRelays
  \/ Resolve
  \/ \E r \in Relays : ProbeDone(r)
  \/ Launch
  \/ \E r \in Relays : RelayAnswers(r)
  \/ \E b \in Branches : QueryTimeout(b)
  \/ Join

Spec == Init /\ [][Next]_vars

\* every pending network step ends: probes and requests are bounded by the
\* pool, the first timeline value by simpleTimeout
FairSpec == Spec /\ WF_vars(Next)

\* ------------------------------------------------- the record helpers
\* every variable of the search
searchVars ==
  <<cfgVars, reqVars, pc, searchRelays, readRelays, relays, net, probed, info,
    supported, nonNip50, held, asked, branch, eose, seen, timeline, results,
    events, total, error>>

\* the configuration holds nothing and the network nothing for the user
ConfigIdle ==
  /\ cfgPubkey = ""
  /\ signerKey = ""
  /\ cfgRelays = <<>>
  /\ netSearch = <<>>
  /\ netOutboxes = <<>>
  /\ extraRelays = <<>>

\* no filter object is in use
InputIdle ==
  /\ variant = "substring"
  /\ limit = NoLimit
  /\ entry = "direct"
  /\ given = PlainFilters
  /\ filters = PlainFilters

\* nothing has been resolved, asked or received
RunIdle ==
  /\ sent = [b \in Branches |-> NoFilter]
  /\ searchedRelays = <<>>
  /\ nip50SupportedRelays = <<>>
  /\ searchRelays = <<>>
  /\ readRelays = <<>>
  /\ relays = <<>>
  /\ net = {}
  /\ probed = {}
  /\ info = [r \in Relays |-> NoInfo]
  /\ supported = <<>>
  /\ nonNip50 = <<>>
  /\ held = [r \in Relays |-> {}]
  /\ asked = [b \in Branches |-> <<>>]
  /\ branch = [b \in Branches |-> "idle"]
  /\ eose = {}
  /\ seen = [b \in Branches |-> {}]
  /\ timeline = [b \in Branches |-> <<>>]
  /\ results = [b \in Branches |-> <<>>]
  /\ events = <<>>
  /\ total = 0
  /\ error = ""

\* no search is running
SearchIdle == ConfigIdle /\ InputIdle /\ RunIdle /\ pc = "idle"

\* a record that arrived from a relay and the query of the search
SnippetInit ==
  /\ SearchIdle
  /\ ResolverIdle
  /\ ListIdle
  /\ ModuleIdle
  /\ snippet \in Snippets
  /\ query \in Queries
  /\ out = NoOut

\* the client-side filter of fallbackSearchEvents applied to the record
FilterEvents ==
  /\ out' = [op |-> "filter", found |-> filterByQuery(<<snippet>>, query)]
  /\ UNCHANGED <<searchVars, resolverVars, listVars, moduleVars, snippet, query>>

\* getSnippetTitle applied to the record
GetSnippetTitle ==
  /\ out' = [op |-> "title", title |-> getSnippetTitle(snippet)]
  /\ UNCHANGED <<searchVars, resolverVars, listVars, moduleVars, snippet, query>>

\* getSnippetTags applied to the record
GetSnippetTags ==
  /\ out' = [op |-> "tags", tags |-> getSnippetTags(snippet)]
  /\ UNCHANGED <<searchVars, resolverVars, listVars, moduleVars, snippet, query>>

SnippetNext == FilterEvents \/ GetSnippetTitle \/ GetSnippetTags

SnippetSpec == SnippetInit /\ [][SnippetNext]_vars

\* --------------------------------------------- the relay set resolver
\* a configuration file with any relay list, with or without a public key,
\* and any end of the relay-list lookup
ResolverInit ==
  /\ cfgPubkey \in {"", "kc"}
  /\ cfgRelays \in ConfigRelayLists
  /\ netOutboxes \in OutboxLists
  /\ lookup \in Lookups
  /\ signerKey = ""
  /\ netSearch = <<>>
  /\ extraRelays = <<>>
  /\ InputIdle
  /\ RunIdle
  /\ pc = "idle"
  /\ SnippetIdle
  /\ ListIdle
  /\ ModuleIdle
  /\ resolved = NoOut

\* a call of getReadRelays
GetReadRelaysCall ==
  /\ resolved' = [op |-> "read",
                  call |-> readRelaysCall(cfgPubkey, cfgRelays, lookup, netOutboxes)]
  /\ UNCHANGED <<searchVars, snippetVars, listVars, moduleVars, lookup>>

\* a call of getWriteRelays
GetWriteRelaysCall ==
  /\ resolved' = [op |-> "write",
                  call |-> writeRelaysCall(cfgPubkey, cfgRelays, lookup, netOutboxes)]
  /\ UNCHANGED <<searchVars, snippetVars, listVars, moduleVars, lookup>>

ResolverNext == GetReadRelaysCall \/ GetWriteRelaysCall

ResolverSpec == ResolverInit /\ [][ResolverNext]_vars

\* ------------------------------------------------------- the listing
\* what fetchUserSnippets leaves alone
listFrame ==
  <<cfgVars, reqVars, searchRelays, relays, probed, info, supported, nonNip50,
    asked, branch, seen, timeline, results, snippetVars, resolverVars,
    moduleVars>>

\* rxjs lastValueFrom: the last value of the pipe, or a rejection
\* (EmptyError) when the pipe completed without a value; the timeline
\* operator gives a value per event, so an empty timeline means no value
lastValueFrom(tl) == [ok |-> tl # <<>>, value |-> tl]

\* the configurations a listing runs under: with and without a configured
\* key and a signer, up to two configured relays, and the user's outboxes
ListConfigs ==
  [pubkey : {"", "kc"}, signer : {"", "ks"},
   relays : {<<>>, <<"A">>, <<"A", "B">>},
   search : {<<>>}, outboxes : {<<>>, <<"A">>, <<"S">>}, extra : {<<>>}]

\* fetchUserSnippets is called under any of them
ListInit ==
  /\ \E c \in ListConfigs :
       /\ cfgPubkey = c.pubkey
       /\ signerKey = c.signer
       /\ cfgRelays = c.relays
       /\ netSearch = c.search
       /\ netOutboxes = c.outboxes
       /\ extraRelays = c.extra
  /\ InputIdle
  /\ RunIdle
  /\ pc = "list"
  /\ SnippetIdle
  /\ ResolverIdle
  /\ ListIdle
  /\ ModuleIdle

\* `await getPublicKey()` and the check of its result
ListGetPublicKey ==
  /\ pc = "list"
  /\ listPubkey' = getPublicKey(cfgPubkey, signerKey)
  /\ IF listPubkey' = ""
     THEN pc' = "failed" /\ error' = "No pubkey found"
     ELSE pc' = "listKey" /\ error' = error
  /\ UNCHANGED <<listFrame, readRelays, net, held, eose, events, total, listReq>>

\* `await getReadRelays()` and the start of pool.request
ListGetReadRelays ==
  /\ pc = "listKey"
  /\ readRelays' = getReadRelays(cfgPubkey, cfgRelays, netOutboxes)
  /\ net' = (IF cfgPubkey # "" THEN net \cup {"lookup"} ELSE net) \cup {"query"}
  /\ pc' = "listing"
  /\ UNCHANGED <<listFrame, held, eose, events, total, error, listVars>>

\* the request of one read relay runs to its end: the relay sends the
\* records it holds, in some order, and the request ends
ListRelayAnswers(r) ==
  /\ pc = "listing"
  /\ r \in Range(readRelays) \ eose
  /\ \E h \in HoldSets : \E o \in Orders(h) :
       /\ held' = [held EXCEPT ![r] = h]
       /\ listReq' = Feed(listReq, o)
  /\ eose' = eose \cup {r}
  /\ UNCHANGED <<listFrame, pc, readRelays, net, events, total, error, listPubkey>>

\* simpleTimeout(10_000): no timeline value within the wait while the
\* request is open (a request to no relay at all may stay open): the
\* operator throws and the catch block rethrows
ListTimeout ==
  /\ pc = "listing"
  /\ listReq.tl = <<>>
  /\ (readRelays = <<>> \/ ~(Range(readRelays) \subseteq eose))
  /\ pc' = "failed"
  /\ error' = "Timeout"
  /\ UNCHANGED <<listFrame, readRelays, net, held, eose, events, total, listVars>>

\* every read relay has ended its request: the pipe completes and
\* lastValueFrom settles; the result is returned, a rejection rethrown
ListReturn ==
  /\ pc = "listing"
  /\ Range(readRelays) \subseteq eose
  /\ LET last == lastValueFrom(listReq.tl) IN
       IF last.ok
       THEN /\ events' = last.value
            /\ total' = Len(last.value)
            /\ pc' = "done"
            /\ error' = error
       ELSE /\ events' = events
            /\ total' = total
            /\ pc' = "failed"
            /\ error' = "EmptyError"
  /\ UNCHANGED <<listFrame, readRelays, net, held, eose, listVars>>

ListNext ==
  \/ ListGetPublicKey
  \/ ListGetReadRelays
  \/ \E r \in Relays : ListRelayAnswers(r)
  \/ ListTimeout
  \/ ListReturn

ListSpec == ListInit /\ [][ListNext]_vars

TypeOK ==
  /\ listPubkey \in {"", "kc", "ks"}
  /\ pc \in {"idle", "tool", "cli", "called", "start", "gotSearch", "gotRead",
            "probing", "searching", "done", "failed", "list", "listKey",
            "listing"}
  /\ Range(relays) \subseteq Relays
  /\ total \in Nat


\* ----------------------------------------------------------- vocabulary
Candidates == Range(relays)

\* the branch requests have been issued
Launched == pc \in {"searching", "done"} \/ (pc = "failed" /\ error = "Timeout")

Finished == pc \in {"done", "failed"}

FromNip50 == Range(results["nip50"])

FromFallback == Range(results["fallback"])

\* the unique records the two branches hold at the merge
Unique == FromNip50 \cup FromFallback

NoRepeat(s) == \A i, j \in 1..Len(s) : i # j => s[i] # s[j]

NewestFirst(s) ==
  \A i \in 1..(Len(s) - 1) : created_at[s[i]] >= created_at[s[i + 1]]

\* x was left out although it is newer than a record that was returned
Eligible(x) ==
  x \notin Range(events) /\ \E y \in Range(events) : created_at[x] > created_at[y]

NothingResolvable ==
  cfgRelays = <<>> /\ netSearch = <<>> /\ netOutboxes = <<>> /\ extraRelays = <<>>

PastResolve ==
  pc \notin {"tool", "cli", "called", "start", "gotSearch", "gotRead"}
  /\ error # "Invalid author"

\* ------------------------------------------------------------------ C1
\* C1: whatever the two branches returned, also when a record came from both
\* branches or from several relays of one branch, no identifier occurs twice
\* in the returned events, and without a limit every identifier of the
\* branch results occurs in them.
C1_DedupExactlyOnce ==
  pc = "done" =>
    /\ NoRepeat(events)
    /\ Range(events) \subseteq Unique
    /\ (limit \in {NoLimit, 0} => Range(events) = Unique)

C1_Witness ==
  /\ pc = "done"
  /\ \E e \in FromNip50 \cap FromFallback :
       /\ e \in Range(events)
       /\ \E r1, r2 \in Candidates :
            r1 # r2 /\ BranchOf(r1) = BranchOf(r2) /\ e \in held[r1] \cap held[r2]

\* ------------------------------------------------------------------ C2
\* C2: a relay whose capability probe gave no descriptor (error or timeout)
\* is never in the capable list, is in the fallback list once the candidates
\* are partitioned, and the probe failure raises nothing: probing goes on
\* without an error and the partition step stays possible.
C2_FailClosedProbe ==
  \A r \in probed :
    info[r] = NoInfo =>
      /\ r \notin Range(supported)
      /\ (Launched => r \in Range(nonNip50) /\ r \notin Range(asked["nip50"]))
      /\ (pc = "probing" => error = "")
      /\ (pc = "probing" /\ probed = Candidates => ENABLED Launch)

C2_Witness ==
  /\ pc = "done"
  /\ \E r \in probed : info[r] = NoInfo /\ r \in Range(asked["fallback"])
  /\ \E r \in probed : info[r] # NoInfo /\ r \in Range(asked["nip50"])

\* ------------------------------------------------------------------ C3
\* number of network steps a search may still take
Rank ==
  (CASE pc \in {"tool", "cli"} -> 70
     [] pc = "called" -> 60
     [] pc = "start" -> 50
     [] pc = "gotSearch" -> 40
     [] pc = "gotRead" -> 30
     [] pc = "probing" -> 20
     [] pc = "searching" -> 10
     [] OTHER -> 0)
  + Cardinality(Relays \ probed) + Cardinality(Relays \ eose)

C3_Eventually == <>Finished

C4_Partition ==
  Launched =>
    /\ \A r \in Candidates :
         /\ r \in Range(asked["nip50"]) <=> (info[r].ok /\ 50 \in info[r].nips)
         /\ r \in Range(asked["fallback"]) <=> ~(info[r].ok /\ 50 \in info[r].nips)
    /\ Range(asked["nip50"]) \cap Range(asked["fallback"]) = {}
    /\ Range(asked["nip50"]) \cup Range(asked["fallback"]) = Candidates
    /\ NoRepeat(asked["nip50"]) /\ NoRepeat(asked["fallback"])

C4_Witness ==
  /\ pc = "searching"
  /\ \E a, b, c \in Candidates :
       /\ info[a].ok /\ 50 \in info[a].nips /\ a \in Range(asked["nip50"])
       /\ info[b] = NoInfo /\ b \in Range(asked["fallback"])
       /\ info[c].ok /\ 50 \notin info[c].nips /\ c \in Range(asked["fallback"])

\* ------------------------------------------------------------------ C5
\* C5: when the request of a branch reaches its 15-second wait without a
\* result, the search still returns: no error is raised to the caller.
C5_TimeoutDegradesToEmpty ==
  \A b \in Branches : branch[b] = "error" => (pc # "failed" /\ error = "")

\* ------------------------------------------------------------------ C6
\* C6: with a non-empty candidate set of which no relay gives a descriptor
\* or a record (total network failure), a finished search has returned an
\* empty events list with no relay listed as capable, and raised nothing.
C6_TotalFailureReturnsEmpty ==
  (/\ Finished
   /\ Launched
   /\ \A r \in Candidates : info[r] = NoInfo /\ held[r] = {})
  => (pc = "done" /\ error = "" /\ events = <<>> /\ supported = <<>>)

\* ------------------------------------------------------------------ C7
\* C7 as stated: with nothing resolvable (empty configured list, nothing
\* derived from the network, no extras) the search fails with "No search
\* relays available" before any network call.
C7_HardErrorWhenNothingResolvable ==
  (NothingResolvable /\ PastResolve) =>
    (pc = "failed" /\ error = "No search relays available" /\ net = {})

\* C7 as amended: with nothing resolvable the candidate list is the hardcoded
\* default search relays and no "No search relays available" error is
\* raised; that error is raised only for an empty merged candidate list, and
\* no capability probe or relay query is issued before the candidate list
\* has been checked.
C7_DefaultsWhenNothingResolvable ==
  /\ (NothingResolvable /\ PastResolve) =>
       (relays = DEFAULT_SEARCH_RELAYS /\ error # "No search relays available")
  /\ (error = "No search relays available" =>
       (pc = "failed" /\ relays = <<>> /\ net \cap {"probe", "query"} = {}))
  /\ (~PastResolve => net \cap {"probe", "query"} = {})

C7_Witness ==
  NothingResolvable /\ pc = "probing" /\ relays = DEFAULT_SEARCH_RELAYS /\ "probe" \in net

\* ------------------------------------------------------------------ C8
\* C8: with a limit N and more than N unique matches over the two branches,
\* the returned events are not all from one branch while the other branch
\* holds a record that was left out although it is newer than a returned
\* one.
C8_LimitFairness ==
  (pc = "done" /\ limit > 0 /\ Cardinality(Unique) > limit) =>
    /\ ~(Range(events) \subseteq FromFallback /\ \E x \in FromNip50 : Eligible(x))
    /\ ~(Range(events) \subseteq FromNip50 /\ \E x \in FromFallback : Eligible(x))

\* ------------------------------------------------------------------ C9
\* C9 as stated: with a limit N >= 0 the result has exactly min(N, U) events
\* and total is that number; without a limit it has U events.
C9_ExactlyMinLimitUnique ==
  pc = "done" =>
    /\ total = Len(events)
    /\ Len(events) = (IF limit = NoLimit THEN Cardinality(Unique)
                      ELSE Min(limit, Cardinality(Unique)))

\* C9 as amended: with a limit N >= 1 the result has exactly min(N, U) events;
\* with limit 0 or no limit it has all U events; total is the number of
\* returned events.
C9_MinLimitUniquePositive ==
  pc = "done" =>
    /\ total = Len(events)
    /\ Len(events) = (IF limit = NoLimit \/ limit = 0 THEN Cardinality(Unique)
                      ELSE Min(limit, Cardinality(Unique)))

C9_Witness ==
  /\ pc = "done"
  /\ limit = 1
  /\ Cardinality(Unique) >= 2
  /\ FromNip50 \ FromFallback # {}
  /\ FromFallback \ FromNip50 # {}
  /\ Len(events) = 1

\* ----------------------------------------------------------------- C10
\* C10: with the substring fallback strategy the returned events are ordered
\* newest first, whichever branch each came from.
C10_NewestFirst ==
  (pc = "done" /\ variant = "substring") => NewestFirst(events)

\* an older capable-branch record and a newer fallback record: the merged
\* order differs from the order of concatenation
C10_Witness ==
  /\ pc = "done"
  /\ variant = "substring"
  /\ Len(events) >= 2
  /\ \E i, j \in 1..Len(events) :
       /\ i < j
       /\ events[i] \in FromFallback \ FromNip50
       /\ events[j] \in FromNip50 \ FromFallback
       /\ created_at[events[i]] > created_at[events[j]]

\* ----------------------------------------------------------------- C11
\* the filter object as it was when searchCodeSnippets was called
Called == IF entry = "mcp" THEN toolFilters(given) ELSE given

\* a relay filter without one of its keys
Without(f, key) == [k \in (DOMAIN f) \ {key} |-> f[k]]

\* C11: once searchCodeSnippets has returned or failed, the filter object it
\* was called with holds the query, language, tags and author it held at the
\* call (the limit is never written).
C11_FilterUnchanged ==
  (Finished /\ pc # "tool") => filters = Called

\* ----------------------------------------------------------------- C12
\* the relay filter of each branch: the one sent, or the one the branch would
\* send had it relays to ask
CapableFilter ==
  IF Len(asked["nip50"]) > 0 THEN sent["nip50"] ELSE buildSearchFilter(filters)

FallbackFilter ==
  IF Len(asked["fallback"]) > 0 THEN sent["fallback"] ELSE basicFilter(filters)

\* C12: for every filter object the relay filter of the fallback branch is
\* the relay filter of the capable branch without its search field: kind
\* 1337, and the same language, lowercased tag and author constraints; the
\* capable filter carries the query as its search field.
C12_FallbackIsCapableWithoutSearch ==
  Launched =>
    /\ FallbackFilter = Without(CapableFilter, "search")
    /\ "search" \in DOMAIN CapableFilter
    /\ CapableFilter["search"] = <<filters.query>>
    /\ "search" \notin DOMAIN FallbackFilter
    /\ FallbackFilter["kinds"] = <<1337>>

\* both branches were sent a filter with every optional constraint set; the
\* caller gave mixed-case tags and an npub author
C12_Witness ==
  /\ pc = "searching"
  /\ Len(asked["nip50"]) > 0 /\ Len(asked["fallback"]) > 0
  /\ given.author = "npub1valid" /\ given.tags = <<"React">>
  /\ DOMAIN sent["fallback"] = {"kinds", "#l", "#t", "authors"}
  /\ sent["fallback"]["#t"] = <<"react">>
  /\ sent["fallback"]["authors"] = <<Hex>>
  /\ sent["nip50"]["authors"] = <<Hex>>

\* ----------------------------------------------------------------- C13
\* C13: in a returned result searchedRelays lists the whole merged candidate
\* set, and nip50SupportedRelays is a subset of searchedRelays.
C13_SearchedRelaysIsCandidateSet ==
  pc = "done" =>
    /\ Range(searchedRelays) = Candidates
    /\ Range(nip50SupportedRelays) \subseteq Range(searchedRelays)

\* ----------------------------------------------------------------- C14
\* the query is a case-insensitive substring of the text
Holds(text, q) == includes(toLower(text), toLower(q))

\* the match the claim describes: the query occurs in the body, in the name
\* tag (the title), or in the value of any tag
MatchesAnyField(event, q) ==
  \/ Holds(event.content, q)
  \/ \E tag \in Range(event.tags) : Len(tag) = 2 /\ Holds(tag[2], q)

\* C14: the substring match returns exactly the records of its input in
\* which the query is a case-insensitive substring of the body, of the title
\* (name tag), or of the value of any tag.
C14_MatchesBodyTitleOrAnyTag ==
  out.op = "filter" =>
    out.found = (IF MatchesAnyField(snippet, query) THEN <<snippet>> ELSE <<>>)

\* ----------------------------------------------------------------- C15
HasTag(event, name) == \E i \in 1..Len(event.tags) : event.tags[i][1] = name

\* the value of the first tag of that name (<<>> when that tag has none)
FirstValue(event, name) ==
  LET i == CHOOSE k \in 1..Len(event.tags) :
             /\ event.tags[k][1] = name
             /\ \A j \in 1..(k - 1) : event.tags[j][1] # name
  IN IF Len(event.tags[i]) = 2 THEN event.tags[i][2] ELSE <<>>

\* the value of the first tag of that name is a non-empty string
HasValue(event, name) == HasTag(event, name) /\ FirstValue(event, name) # <<>>

\* C15 as stated: the title is the value of the name tag when the record has
\* one, otherwise the value of the description tag when it has one,
\* otherwise "Untitled Snippet"; the tag list of a record without t tags is
\* the empty list.
C15_TitleOfPresentTag ==
  /\ out.op = "title" =>
       out.title = (IF HasTag(snippet, "name") THEN FirstValue(snippet, "name")
                    ELSE IF HasTag(snippet, "description")
                         THEN FirstValue(snippet, "description")
                    ELSE UntitledSnippet)
  /\ (out.op = "tags" /\ ~HasTag(snippet, "t")) => out.tags = <<>>

\* C15 as amended: the title is the value of the first name tag when that
\* value is a non-empty string, otherwise the value of the first description
\* tag when that is a non-empty string, otherwise "Untitled Snippet"; the
\* tag list is always a list, empty for a record without t tags.
C15_TitleOfNonEmptyValue ==
  /\ out.op = "title" =>
       out.title = (IF HasValue(snippet, "name") THEN FirstValue(snippet, "name")
                    ELSE IF HasValue(snippet, "description")
                         THEN FirstValue(snippet, "description")
                    ELSE UntitledSnippet)
  /\ out.op = "tags" =>
       /\ out.tags \in Seq({Plain, toLower(Mixed)})
       /\ (~HasTag(snippet, "t") => out.tags = <<>>)

\* a record whose name tag is empty and whose description is not: the title
\* is the description
C15_Witness ==
  /\ out.op = "title"
  /\ HasTag(snippet, "name") /\ ~HasValue(snippet, "name")
  /\ HasValue(snippet, "description")
  /\ out.title = FirstValue(snippet, "description")

\* ----------------------------------------------------------------- C16
\* C16: the list getReadRelays or getWriteRelays returns holds no address
\* twice, whatever the configuration file holds and with or without a
\* configured public key.
C16_ResolvedListHasNoRepeat ==
  (resolved.op # "none" /\ resolved.call.ok) => NoRepeat(resolved.call.relays)

\* ----------------------------------------------------------------- C17
\* C17: getReadRelays and getWriteRelays never raise; when a public key is
\* configured and the lookup of the relay-list record times out, raises or
\* finds nothing, they return the configured relays.
C17_ResolverNeverFails ==
  resolved.op # "none" =>
    /\ resolved.call.ok
    /\ (cfgPubkey # "" /\ lookup # "found") =>
         /\ Range(resolved.call.relays) = Range(cfgRelays)
         /\ resolved.call.relays = mergeRelaySets(cfgRelays, <<>>, <<>>)

\* the lookup timed out for a configured key with configured relays
C17_Witness ==
  /\ resolved.op = "read"
  /\ cfgPubkey # "" /\ lookup = "timeout"
  /\ cfgRelays = <<"A", "B">>
  /\ resolved.call = [ok |-> TRUE, relays |-> <<"A", "B">>]

\* ----------------------------------------------------------------- C18
\* C18: a language that is no key, alias or extension is carried unchanged
\* as the language constraint of every relay filter the search sends,
\* whether searchCodeSnippets is called directly or by search_snippets.
C18_UnknownLanguagePassesThrough ==
  (Launched /\ given.language # "" /\ normalizeLanguage(given.language) = "") =>
    \A b \in Branches :
      Len(asked[b]) > 0 =>
        ("#l" \in DOMAIN sent[b] /\ sent[b]["#l"] = <<given.language>>)

\* ----------------------------------------------------------------- C19
MalformedAuthor == given.author # "" /\ normalizeToPubkey(given.author) = ""

\* C19: with an author that cannot be normalized to a public key the search
\* fails with an error as soon as it has looked at its input, and no
\* relay-list lookup, capability probe or relay query was issued; an author
\* error is never raised after a network call.
C19_MalformedAuthorFailsFirst ==
  /\ (MalformedAuthor /\ pc \notin {"tool", "cli", "called"}) =>
       (pc = "failed" /\ error = "Invalid author" /\ net = {})
  /\ (error = "Invalid author" => (MalformedAuthor /\ net = {}))

\* the failed search runs under a configuration whose relay lists would have
\* been looked up
C19_Witness ==
  /\ MalformedAuthor
  /\ pc = "failed" /\ error = "Invalid author"
  /\ cfgPubkey # "" /\ netSearch # <<>>
  /\ net = {}

\* ----------------------------------------------------------------- C20
\* C20: when every read relay has completed the query of a listing without
\* delivering a record, fetchUserSnippets returns an empty events list with
\* total 0 and raises nothing.
C20_EmptyListingSucceeds ==
  (/\ pc \in {"done", "failed"}
   /\ "query" \in net
   /\ readRelays # <<>>
   /\ Range(readRelays) \subseteq eose
   /\ \A r \in Range(readRelays) : held[r] = {})
  => (pc = "done" /\ error = "" /\ events = <<>> /\ total = 0)

\* ----------------------------------------------------------------- C21
\* C21: every relay the caller supplied (the extraRelays argument, the -r
\* option of the search command) is a candidate of the search: it is probed
\* and, once the branches are launched, asked by one of them.
C21_ExtrasAreCandidates ==
  /\ PastResolve => Range(extraRelays) \subseteq Candidates
  /\ Launched =>
       \A r \in Range(extraRelays) :
         r \in probed /\ r \in Range(asked["nip50"]) \cup Range(asked["fallback"])

\* ----------------------------------------------------------------- C22
\* the listing has obtained the user's key from getPublicKey
KeyObtained == listPubkey # ""

\* C22: getPublicKey tries the signer first: when a signer is available the
\* key it returns is the signer's, also when the configuration holds a key.
C22_SignerKeyFirst ==
  (KeyObtained /\ signerKey # "") => listPubkey = signerKey

\* ------------------------------------------------------------ signer.ts
\* everything but the module-level state of the helpers
coreVars == <<searchVars, snippetVars, resolverVars, listVars>>

\* what signer.ts and what shutdown.ts leave alone
signerFrame == <<coreVars, shutdownVars, publishVars, commandVars>>
shutdownFrame == <<coreVars, signerVars, publishVars, commandVars>>
publishFrame == <<coreVars, signerVars, shutdownVars, commandVars>>
commandFrame == <<coreVars, signerVars, shutdownVars, publishVars>>

\* the module is loaded; SIGNER or the keyring holds a signer value or not
SignerInit ==
  /\ SearchIdle
  /\ SnippetIdle
  /\ ResolverIdle
  /\ ListIdle
  /\ ShutdownIdle
  /\ PublishIdle
  /\ CommandIdle
  /\ signerInstance = NoInstance
  /\ signerValue \in BOOLEAN
  /\ made = 0
  /\ getting = [c \in Callers |-> NotCalling]
  /\ replaced = FALSE

\* getSigner up to its first suspension: `if (!signerInstance)` is read, and
\* either the instance is returned or createSignerInstance is started and
\* awaited
getSigner(c) ==
  /\ getting[c].at = "idle"
  /\ getting' =
       [getting EXCEPT ![c] =
          IF signerInstance # NoInstance
          THEN [at |-> "returned", got |-> signerInstance]
          ELSE [at |-> "creating", got |-> NoInstance]]
  /\ UNCHANGED <<signerFrame, signerInstance, signerValue, made, replaced>>

\* createSignerInstance resolves with a new instance; getSigner resumes:
\* `signerInstance = await ...; return signerInstance`
createSignerInstance(c) ==
  /\ getting[c].at = "creating"
  /\ signerValue
  /\ made' = made + 1
  /\ signerInstance' = made'
  /\ getting' = [getting EXCEPT ![c] = [at |-> "returned", got |-> made']]
  /\ UNCHANGED <<signerFrame, signerValue, replaced>>

\* createSignerInstance throws "No signer configured."; getSigner rejects
NoSignerConfigured(c) ==
  /\ getting[c].at = "creating"
  /\ ~signerValue
  /\ getting' = [getting EXCEPT ![c] = [at |-> "failed", got |-> NoInstance]]
  /\ UNCHANGED <<signerFrame, signerInstance, signerValue, made, replaced>>

\* setSignerInstance(signer)
setSignerInstance ==
  /\ signerInstance # GivenInstance
  /\ signerInstance' = GivenInstance
  /\ replaced' = TRUE
  /\ UNCHANGED <<signerFrame, signerValue, made, getting>>

\* clearSignerInstance()
clearSignerInstance ==
  /\ signerInstance # NoInstance
  /\ signerInstance' = NoInstance
  /\ replaced' = TRUE
  /\ UNCHANGED <<signerFrame, signerValue, made, getting>>

SignerNext ==
  \/ \E c \in Callers : getSigner(c)
  \/ \E c \in Callers : createSignerInstance(c)
  \/ \E c \in Callers : NoSignerConfigured(c)
  \/ setSignerInstance
  \/ clearSignerInstance

SignerSpec == SignerInit /\ [][SignerNext]_vars

\* ----------------------------------------------------------------- C23
\* C23: getSigner returns a singleton: as long as the instance was not set
\* or cleared from outside, at most one instance is made and all calls that
\* returned, overlapping ones included, got the same instance.
C23_OneInstanceForAllCalls ==
  ~replaced =>
    /\ made <= 1
    /\ \A c, d \in Callers :
         (getting[c].at = "returned" /\ getting[d].at = "returned")
           => getting[c].got = getting[d].got

\* ----------------------------------------------------------------- C24
\* a query has left for some relay
QuerySent == "query" \in net \/ \E b \in Branches : sent[b] # NoFilter

\* the branch results have been merged into the result of the search
Merged == pc = "done"

\* C24: the search sends no query before every capability probe has
\* completed, and merges only after every launched branch has completed
\* (a branch that timed out fails the search, nothing is merged then).
C24_ProbesThenQueriesThenMerge ==
  /\ (QuerySent \/ Launched) => probed = Candidates
  /\ Merged =>
       \A b \in Branches :
         /\ branch[b] \in {"done", "skipped", "error"}
         /\ Len(asked[b]) > 0 => BranchRelays(b) \subseteq eose

\* both branches were launched over three candidates and merged
C24_Witness ==
  /\ Merged
  /\ Cardinality(Candidates) = 3
  /\ \A b \in Branches : branch[b] = "done"

\* ---------------------------------------------------------- shutdown.ts
\* the module is loaded; each handler ends in one of the three ways
ShutdownInit ==
  /\ SearchIdle
  /\ SnippetIdle
  /\ ResolverIdle
  /\ ListIdle
  /\ SignerIdle
  /\ PublishIdle
  /\ CommandIdle
  /\ handlers = <<>>
  /\ isShuttingDown = FALSE
  /\ isInitialized = FALSE
  /\ handlerEnds \in [HandlerNames -> HandlerEnds]
  /\ handlerState = [n \in HandlerNames |-> "idle"]
  /\ invoked = [n \in HandlerNames |-> 0]
  /\ atStart = <<>>
  /\ requests = [r \in Requests |-> NotRequested]
  /\ exited = FALSE

\* registerShutdownHandler(name, handler): initialize() installs the exit
\* hooks the first time, the handler is pushed; each module registers its
\* handler once
registerShutdownHandler(n) ==
  /\ ~exited
  /\ n \notin Range(handlers)
  /\ isInitialized' = TRUE
  /\ handlers' = Append(handlers, n)
  /\ UNCHANGED <<shutdownFrame, isShuttingDown, handlerEnds, handlerState,
                 invoked, atStart, requests, exited>>

\* handlers.splice(index, 1) at the first handler of that name
RECURSIVE splice(_, _)
splice(hs, n) ==
  IF hs = <<>> THEN <<>>
  ELSE IF Head(hs) = n THEN Tail(hs)
       ELSE <<Head(hs)>> \o splice(Tail(hs), n)

\* unregisterShutdownHandler(name)
unregisterShutdownHandler(n) ==
  /\ ~exited
  /\ n \in Range(handlers)
  /\ handlers' = splice(handlers, n)
  /\ UNCHANGED <<shutdownFrame, isShuttingDown, isInitialized, handlerEnds,
                 handlerState, invoked, atStart, requests, exited>>

\* mutant: every request runs the handlers
shutdownNeverInProgress == FALSE

\* `if (isShuttingDown) return` at the head of executeShutdown
shutdownInProgress == isShuttingDown

\* mutant: the handlers are invoked one after the other in a loop that the
\* first throw ends
RECURSIVE shutdownPromisesUntilThrow(_, _)
shutdownPromisesUntilThrow(hs, ends) ==
  IF hs = <<>> THEN <<>>
  ELSE IF ends[Head(hs)] = "throws" THEN <<Head(hs)>>
       ELSE <<Head(hs)>> \o shutdownPromisesUntilThrow(Tail(hs), ends)

\* handlers.map(async ({ name, handler }) => { try { await handler() }
\* catch { } }): every registered handler is invoked, in order, each in a
\* wrapper of its own that catches what the handler throws
shutdownPromises(hs, ends) == hs

\* a shutdown request arrives by one of the paths and executeShutdown runs
\* up to its first suspension: it returns at once when a shutdown is in
\* progress, and otherwise sets the flag and invokes the handlers
executeShutdown(r, p) ==
  /\ ~exited
  /\ requests[r] = NotRequested
  /\ r > 1 => requests[r - 1] # NotRequested
  /\ p = "exitHook" => isInitialized
  /\ IF shutdownInProgress
     THEN /\ requests' = [requests EXCEPT
                            ![r] = [path |-> p, at |-> "skipped", ran |-> FALSE]]
          /\ UNCHANGED <<isShuttingDown, handlerState, invoked, atStart>>
     ELSE LET run == Range(shutdownPromises(handlers, handlerEnds)) IN
          /\ isShuttingDown' = TRUE
          /\ atStart' = handlers
          /\ invoked' = [n \in HandlerNames |->
                           IF n \in run THEN invoked[n] + 1 ELSE invoked[n]]
          /\ handlerState' =
               [n \in HandlerNames |->
                  IF n \notin run THEN handlerState[n]
                  ELSE IF handlerEnds[n] = "throws" THEN "failed"
                  ELSE "running"]
          /\ requests' = [requests EXCEPT
                            ![r] = [path |-> p, at |-> "awaiting", ran |-> TRUE]]
  /\ UNCHANGED <<shutdownFrame, handlers, isInitialized, handlerEnds, exited>>

\* the promise of a running handler settles
HandlerSettles(n) ==
  /\ ~exited
  /\ handlerState[n] = "running"
  /\ handlerState' =
       [handlerState EXCEPT
          ![n] = IF handlerEnds[n] = "resolves" THEN "completed" ELSE "failed"]
  /\ UNCHANGED <<shutdownFrame, handlers, isShuttingDown, isInitialized,
                 handlerEnds, invoked, atStart, requests, exited>>

\* `await Promise.allSettled(shutdownPromises)`: every wrapper has settled
allSettled == \A n \in Range(atStart) : handlerState[n] # "running"

\* `await executeShutdown()` resumes in the caller: gracefulShutdown calls
\* process.exit, an exit hook calls its callback
AfterShutdown(r) ==
  /\ ~exited
  /\ \/ requests[r].at = "skipped"
     \/ requests[r].at = "awaiting" /\ allSettled
  /\ IF requests[r].path = "gracefulShutdown"
     THEN /\ exited' = TRUE
          /\ requests' = [requests EXCEPT ![r].at = "exited"]
     ELSE /\ exited' = exited
          /\ requests' = [requests EXCEPT ![r].at = "calledBack"]
  /\ UNCHANGED <<shutdownFrame, handlers, isShuttingDown, isInitialized,
                 handlerEnds, handlerState, invoked, atStart>>

ShutdownNext ==
  \/ \E n \in HandlerNames : registerShutdownHandler(n)
  \/ \E n \in HandlerNames : unregisterShutdownHandler(n)
  \/ \E r \in Requests, p \in RequestPaths : executeShutdown(r, p)
  \/ \E n \in HandlerNames : HandlerSettles(n)
  \/ \E r \in Requests : AfterShutdown(r)

ShutdownSpec == ShutdownInit /\ [][ShutdownNext]_vars

\* ----------------------------------------------------------------- C25
\* C25: each registered shutdown handler is invoked at most once per
\* process, however many shutdown requests arrive and by whichever path.
C25_HandlersInvokedAtMostOnce ==
  \A n \in HandlerNames : invoked[n] <= 1

\* two requests were made and the handlers ran
C25_Witness ==
  /\ \A r \in {1, 2} : requests[r] # NotRequested
  /\ requests[1].path # requests[2].path
  /\ \A n \in HandlerNames : invoked[n] = 1

\* ----------------------------------------------------------------- C26
\* the request whose executeShutdown ran the handlers has got past its await
Returned(r) == requests[r].ran /\ requests[r].at \in {"exited", "calledBack"}

\* C26: a handler that throws or rejects stops no other handler: every
\* handler registered when the shutdown starts is invoked, and the
\* executeShutdown that invoked them returns only when all have settled.
C26_EveryHandlerRunsAndIsAwaited ==
  /\ isShuttingDown => \A n \in Range(atStart) : invoked[n] >= 1
  /\ \A r \in Requests :
       Returned(r) =>
         \A n \in Range(atStart) : handlerState[n] \in {"completed", "failed"}

\* the first handler threw, the second ran to its end, executeShutdown
\* returned
C26_Witness ==
  /\ Len(atStart) = 2
  /\ handlerState[atStart[1]] = "failed"
  /\ handlerEnds[atStart[1]] = "throws"
  /\ handlerState[atStart[2]] = "completed"
  /\ \E r \in Requests : Returned(r)

\* ----------------------------------------------------------------- C27
\* C27: process.exit is called only after every handler that was started
\* has completed or failed, also when a second request arrives while the
\* handlers of the first are running.
C27_ExitAfterHandlers ==
  exited => \A n \in HandlerNames : handlerState[n] # "running"

\* ------------------------------------------------------- publishToNostr
\* the record is signed and the relays are merged: the write relays and the
\* user's search relays (the defaults when their lookup throws)
PublishInit ==
  /\ SearchIdle
  /\ SnippetIdle
  /\ ResolverIdle
  /\ ListIdle
  /\ SignerIdle
  /\ ShutdownIdle
  /\ CommandIdle
  /\ publisher \in Publishers
  /\ \E w \in ConfigRelayLists, sr \in PublishSearchLists :
       allRelays = mergeRelaySets(w, sr, <<>>)
  /\ response = [r \in Relays |-> "none"]
  /\ publishOut = NoOut

\* the wrapper around pool.relay(relayUrl).publish(signedEvent): success is
\* response.ok; in the catch block the create command returns success false
\* and the publish_snippet tool returns success true
success(who, answer) ==
  CASE answer = "ok" -> TRUE
    [] answer = "rejected" -> FALSE
    [] answer = "error" -> who = "publish_snippet"

\* a relay answers the publish, or its connection fails
RelayResponds(r) ==
  /\ publishOut = NoOut
  /\ r \in Range(allRelays)
  /\ response[r] = "none"
  /\ \E a \in Responses : response' = [response EXCEPT ![r] = a]
  /\ UNCHANGED <<publishFrame, publisher, allRelays, publishOut>>

\* results.filter(fulfilled and value.success).length
successful(who, rs, answers) ==
  Cardinality({r \in Range(rs) : success(who, answers[r])})

\* `await Promise.allSettled(publishPromises)` and the code after it
publishToNostr ==
  /\ publishOut = NoOut
  /\ \A r \in Range(allRelays) : response[r] # "none"
  /\ LET n == successful(publisher, allRelays, response) IN
       publishOut' =
         IF n > 0
         THEN [op |-> "published", publishedRelays |-> n,
               failedRelays |-> Len(allRelays) - n]
         ELSE [op |-> "error"]
  /\ UNCHANGED <<publishFrame, publisher, allRelays, response>>

PublishNext ==
  \/ \E r \in Relays : RelayResponds(r)
  \/ publishToNostr

PublishSpec == PublishInit /\ [][PublishNext]_vars

\* ----------------------------------------------------------------- C28
\* the relays that acknowledged the record with ok
Acknowledged == {r \in Range(allRelays) : response[r] = "ok"}

\* C28: a publish succeeds only if a relay acknowledged the record with ok,
\* and the number of relays reported as published is the number that
\* acknowledged, in the create command and in the publish_snippet tool.
C28_PublishedMeansAcknowledged ==
  publishOut.op = "published" =>
    /\ Acknowledged # {}
    /\ publishOut.publishedRelays = Cardinality(Acknowledged)

\* ---------------------------------------------------- the config command
\* String.prototype.trim on the URLs given
trim(url) == IF url = " A " THEN "A" ELSE url

\* validateRelayUrl: the URL parses and its protocol is ws: or wss:
validateRelayUrl(url) == url \in Relays

\* the relay lists without a repeated address
StoredLists ==
  {l \in UNION {[1..n -> Relays] : n \in 0..MaxConfigRelays} : NoRepeat(l)}

\* the configuration file holds a relay list without a repeated address
CommandInit ==
  /\ SearchIdle
  /\ SnippetIdle
  /\ ResolverIdle
  /\ ListIdle
  /\ SignerIdle
  /\ ShutdownIdle
  /\ PublishIdle
  /\ storedRelays \in StoredLists
  /\ lastCommand = NoCommand

\* mutant: the relay is pushed whether the list holds it or not
relaysIncludeNothing(list, url) == FALSE

\* config.relays.includes(trimmed)
relaysInclude(list, url) == url \in Range(list)

\* config.relays.indexOf(trimmed), 0 for -1
RECURSIVE indexOf(_, _)
indexOf(list, url) ==
  IF list = <<>> THEN 0
  ELSE IF Head(list) = url THEN 1
  ELSE IF indexOf(Tail(list), url) = 0 THEN 0
  ELSE 1 + indexOf(Tail(list), url)

\* config.relays.splice(index, 1)
spliceAt(list, i) == SubSeq(list, 1, i - 1) \o SubSeq(list, i + 1, Len(list))

\* `config --add-relay <url>`: addRelayFromCli
addRelayFromCli(url) ==
  /\ Len(storedRelays) < MaxStored
  /\ LET trimmed == trim(url) IN
     IF ~validateRelayUrl(trimmed)
     THEN /\ lastCommand' = [op |-> "add", url |-> url,
                             before |-> storedRelays, exit |-> 1]
          /\ UNCHANGED storedRelays
     ELSE IF relaysInclude(storedRelays, trimmed)
     THEN /\ lastCommand' = [op |-> "add", url |-> url,
                             before |-> storedRelays, exit |-> 0]
          /\ UNCHANGED storedRelays
     ELSE /\ storedRelays' = Append(storedRelays, trimmed)
          /\ lastCommand' = [op |-> "add", url |-> url,
                             before |-> storedRelays, exit |-> 0]
  /\ UNCHANGED commandFrame

\* `config --remove-relay <url>`: removeRelayFromCli
removeRelayFromCli(url) ==
  /\ LET index == indexOf(storedRelays, trim(url)) IN
     IF index = 0
     THEN /\ lastCommand' = [op |-> "remove", url |-> url,
                             before |-> storedRelays, exit |-> 1]
          /\ UNCHANGED storedRelays
     ELSE /\ storedRelays' = spliceAt(storedRelays, index)
          /\ lastCommand' = [op |-> "remove", url |-> url,
                             before |-> storedRelays, exit |-> 0]
  /\ UNCHANGED commandFrame

\* the menu's removeRelay: the relay chosen from the list is spliced out
removeRelay(relayIndex) ==
  /\ relayIndex \in 1..Len(storedRelays)
  /\ storedRelays' = spliceAt(storedRelays, relayIndex)
  /\ lastCommand' = [op |-> "remove", url |-> storedRelays[relayIndex],
                     before |-> storedRelays, exit |-> 0]
  /\ UNCHANGED commandFrame

\* the menu's resetRelays, confirmed
resetRelays ==
  /\ storedRelays' = DEFAULT_RELAYS
  /\ lastCommand' = [op |-> "reset", url |-> "", before |-> storedRelays,
                     exit |-> 0]
  /\ UNCHANGED commandFrame

CommandNext ==
  \/ \E url \in RelayUrls : addRelayFromCli(url)
  \/ \E url \in RelayUrls : removeRelayFromCli(url)
  \/ \E i \in 1..MaxStored : removeRelay(i)
  \/ resetRelays

CommandSpec == CommandInit /\ [][CommandNext]_vars

\* ----------------------------------------------------------------- C29
\* the address the last command was given was in the list before it ran
WasPresent == trim(lastCommand.url) \in Range(lastCommand.before)

\* C29: add-relay, remove-relay and reset-relays keep the stored relay list
\* free of repeated addresses; adding an address that is present and
\* removing one that is absent leave the stored list as it was.
C29_StoredRelaysStayRepeatFree ==
  /\ NoRepeat(storedRelays)
  /\ (lastCommand.op = "add" /\ WasPresent) =>
       storedRelays = lastCommand.before
  /\ (lastCommand.op = "remove" /\ ~WasPresent) =>
       storedRelays = lastCommand.before

\* an address in the list was added again, with blanks around it
C29_Witness ==
  /\ lastCommand.op = "add"
  /\ lastCommand.url = " A "
  /\ WasPresent
  /\ Len(storedRelays) >= 2

\* ----------------------------------------------------------------- C30
\* the capable candidates in candidate order: what filterNIP50SupportedRelays
\* returns when the probes complete in the order they were started
CapableInOrder ==
  SeqFilter(relays, {r \in Range(relays) : IsCapable(info[r])})

\* every relay delivered at most one record, so what it delivered is fixed
\* by what it holds
SingleDeliveries == \A r \in Relays : Cardinality(held[r]) <= 1

\* the records the relays of a branch delivered, relay after relay in
\* candidate order
RECURSIVE InCandidateOrder(_)
InCandidateOrder(rs) ==
  IF rs = <<>> THEN <<>>
  ELSE (IF held[Head(rs)] = {} THEN <<>>
        ELSE <<CHOOSE i \in held[Head(rs)] : TRUE>>)
       \o InCandidateOrder(Tail(rs))

\* the result of a branch whose relays complete in candidate order
OrderedResult(b) ==
  IF asked[b] = <<>> THEN <<>>
  ELSE BranchResult(variant, b,
         Feed(NoRequest,
              InCandidateOrder(SeqFilter(relays, BranchRelays(b)))).tl)

\* the events of the search when every completion comes in candidate order
OrderedEvents ==
  finalEvents(variant, limit, [b \in Branches |-> OrderedResult(b)])

\* C30: for fixed relay behaviour the result does not depend on the order
\* in which probes and queries complete: nip50SupportedRelays and events are
\* those of the run in which every completion comes in candidate order.
C30_ResultIndependentOfInterleaving ==
  Merged =>
    /\ nip50SupportedRelays = CapableInOrder
    /\ SingleDeliveries => events = OrderedEvents

====
